---- MODULE Spec2Model ----
(***************************************************************************)
(* Model of the Intelligent Peer Sharing (IPS) core of crunchy:            *)
(* src/src/ips/algorithm.rs, src/src/ips/graph_utils.rs and                *)
(* src/src/ips/statistics.rs.                                              *)
(*                                                                         *)
(* Conventions.                                                            *)
(*  - A node vector is a sequence of records                               *)
(*      [addr, betweenness, connections].                                  *)
(*    Rust indexes the vector from 0, the model from 1: model index i is   *)
(*    Rust index i-1.  Only find_lowest_betweenness depends on the value   *)
(*    of an index (its default result 0 is the FIRST node, here 1).        *)
(*  - f64 values are modelled by exact integers.  Betweenness values are   *)
(*    integers (multiples of a fixed unit); the median is kept doubled     *)
(*    and the bridge threshold adjustment is counted in quarters, so that  *)
(*    "b < median * adjustment" is the integer test                        *)
(*    8 * b < median_x2 * adjustment_x4.                                   *)
(***************************************************************************)
EXTENDS Integers, Sequences, FiniteSets, TLC

VARIABLES
    pc,             \* position of the modelled call
    nodes_in,       \* node vector (or series) handed to the function under test / to generate
    arg,            \* scalar argument of the function under test
    result,         \* value returned by the function under test
    config,         \* IPSConfiguration of the run of generate
    working_state,  \* generate: working_state (nodes and degrees)
    final_state,    \* generate: final_state (nodes and degrees)
    bridges,        \* generate: the map returned by find_bridges
    node_idx,       \* generate: the node the MCDA loop processes next
    peer_list       \* generate: the returned Vec<Peer>

utilVars == <<pc, nodes_in, arg, result>>
genVars == <<config, working_state, final_state, bridges, node_idx, peer_list>>
vars == <<pc, nodes_in, arg, result, config, working_state, final_state,
          bridges, node_idx, peer_list>>

-----------------------------------------------------------------------------
(* Bounds of the model *)

MaxUtilNodes == 3
MaxBtw == 2
MaxNodes == 5
MaxEdges == 4
MaxChangeAtLeast == 1
MaxChangeNoMore == 2
MaxRating == 1
MaxSeriesLen == 4
MaxValue == 2
MaxCrawlNodes == 4
MaxRepeat == 2
MaxCounts == 3
U32Bits == 3
ProbeNodes == 15
MaxPosition == 6
MaxDistanceKm == 2
MaxWeight == 2

-----------------------------------------------------------------------------
(* Generic helpers for Vec / HashSet *)

SeqToSet(s) == {s[i] : i \in DOMAIN s}

Contains(s, x) == \E i \in DOMAIN s : s[i] = x

\* Ascending sequence of the elements of a finite set of integers.
RECURSIVE SortedSeq(_)
SortedSeq(S) ==
    IF S = {} THEN <<>>
    ELSE LET m == CHOOSE x \in S : \A y \in S : x <= y
         IN <<m>> \o SortedSeq(S \ {m})

\* Vec::sort_by with an ascending integer key: a stable sort.  keys[i] is the
\* key of s[i]; equal keys keep their original relative order.
StableSortAsc(s, keys) ==
    LET n == Len(s)
        Rank(i) == Cardinality({j \in 1..n :
                        keys[j] < keys[i] \/ (keys[j] = keys[i] /\ j < i)}) + 1
    IN [k \in 1..n |-> s[CHOOSE i \in 1..n : Rank(i) = k]]

\* f64::round of numer/denom for non-negative operands (half away from zero).
RoundDiv(numer, denom) == (2 * numer + denom) \div (2 * denom)

-----------------------------------------------------------------------------
(* statistics.rs *)

\* Variant of median that takes the central elements of the list as given.
median_x2_unsorted(list) ==
    IF Len(list) = 0 THEN <<>>
    ELSE LET mid == Len(list) \div 2
         IN IF Len(list) % 2 = 0
            THEN <<list[mid] + list[mid + 1]>>
            ELSE <<2 * list[mid + 1]>>

\* median(list): None (<<>>) on an empty list, otherwise Some(<<m>>) where m
\* is TWICE the median (so that the mean of the two central elements stays an
\* integer).
median_x2(list) ==
    IF Len(list) = 0 THEN <<>>
    ELSE LET sorted == StableSortAsc(list, list)
             mid == Len(list) \div 2
         IN IF Len(list) % 2 = 0
            THEN <<sorted[mid] + sorted[mid + 1]>>
            ELSE <<2 * sorted[mid + 1]>>

-----------------------------------------------------------------------------
(* graph_utils.rs *)

\* HashMap entry(k).and_modify(insert v).or_insert(HashSet::new()).insert(v)
BridgeInsert(acc, k, v) ==
    IF k \in DOMAIN acc
    THEN [acc EXCEPT ![k] = @ \cup {v}]
    ELSE acc @@ (k :> {v})

\* The peer test of find_bridges: the peer is skipped when its betweenness is
\* at or below the threshold.
PeerBelowThreshold(b, m2, adj4) == 8 * b <= m2 * adj4

\* The node test of find_bridges: the node is skipped when its betweenness is
\* strictly below the threshold.
NodeBelowThreshold(b, m2, adj4) == 8 * b < m2 * adj4

\* Variant of BridgesOfPeers that records the edge under the node's key only.
RECURSIVE BridgesOfPeersOneWay(_, _, _, _, _, _)
BridgesOfPeersOneWay(nodes, m2, adj4, idx, j, acc) ==
    IF j > Len(nodes[idx].connections) THEN acc
    ELSE LET peer_idx == nodes[idx].connections[j]
         IN IF PeerBelowThreshold(nodes[peer_idx].betweenness, m2, adj4)
            THEN BridgesOfPeersOneWay(nodes, m2, adj4, idx, j + 1, acc)
            ELSE BridgesOfPeersOneWay(nodes, m2, adj4, idx, j + 1,
                    BridgeInsert(acc, idx, peer_idx))

\* Inner loop of find_bridges over node.connections[j..].
RECURSIVE BridgesOfPeers(_, _, _, _, _, _)
BridgesOfPeers(nodes, m2, adj4, idx, j, acc) ==
    IF j > Len(nodes[idx].connections) THEN acc
    ELSE LET peer_idx == nodes[idx].connections[j]
         IN IF PeerBelowThreshold(nodes[peer_idx].betweenness, m2, adj4)
            THEN BridgesOfPeers(nodes, m2, adj4, idx, j + 1, acc)
            ELSE BridgesOfPeers(nodes, m2, adj4, idx, j + 1,
                    BridgeInsert(BridgeInsert(acc, idx, peer_idx),
                                 peer_idx, idx))

\* Outer loop of find_bridges over nodes[idx..].
RECURSIVE BridgesOfNodes(_, _, _, _, _)
BridgesOfNodes(nodes, m2, adj4, idx, acc) ==
    IF idx > Len(nodes) THEN acc
    ELSE IF NodeBelowThreshold(nodes[idx].betweenness, m2, adj4)
         THEN BridgesOfNodes(nodes, m2, adj4, idx + 1, acc)
         ELSE BridgesOfNodes(nodes, m2, adj4, idx + 1,
                 BridgesOfPeers(nodes, m2, adj4, idx, 1, acc))

\* find_bridges(nodes, threshold_adjustment); the result is a function from
\* the keys of the HashMap to their HashSets.
find_bridges(nodes, adj4) ==
    IF Len(nodes) < 2 THEN << >>
    ELSE LET betweenness_list == [i \in DOMAIN nodes |-> nodes[i].betweenness]
             m2 == median_x2(betweenness_list)[1]
         IN BridgesOfNodes(nodes, m2, adj4, 1, << >>)

\* Variant of remove_node that forgets to rewrite the indices above node_idx.
remove_node_no_reindex(nodes, idx) ==
    LET node == nodes[idx]
        peers == SeqToSet(node.connections)
        unlinked == [i \in DOMAIN nodes |->
                        IF i \in peers
                        THEN [nodes[i] EXCEPT !.connections =
                                 SelectSeq(@, LAMBDA x : x # idx)]
                        ELSE nodes[i]]
    IN SelectSeq(unlinked, LAMBDA x : x.addr # node.addr)

\* remove_node(nodes, node_idx)
remove_node(nodes, idx) ==
    LET node == nodes[idx]
        peers == SeqToSet(node.connections)
        unlinked == [i \in DOMAIN nodes |->
                        IF i \in peers
                        THEN [nodes[i] EXCEPT !.connections =
                                 SelectSeq(@, LAMBDA x : x # idx)]
                        ELSE nodes[i]]
        kept == SelectSeq(unlinked, LAMBDA x : x.addr # node.addr)
        Reindex(conns) == [k \in DOMAIN conns |->
                              IF conns[k] > idx THEN conns[k] - 1 ELSE conns[k]]
    IN [i \in DOMAIN kept |->
           [kept[i] EXCEPT !.connections = Reindex(kept[i].connections)]]

\* construct_graph with an insert only for a connection listed by the endpoint
\* of lower index.
construct_graph_from_lower(nodes) ==
    {{nodes[p[1]].addr, nodes[p[2]].addr} :
        p \in {q \in (DOMAIN nodes) \X (DOMAIN nodes) :
                    q[1] <= q[2] /\ Contains(nodes[q[1]].connections, q[2])}}

\* construct_graph(nodes): the undirected edges between addresses that the
\* graph holds after one insert per listed connection.  An edge is the set of
\* its endpoints, so a listing in both directions or a repeated listing adds
\* nothing, and a self-loop is a singleton.
construct_graph(nodes) ==
    {{nodes[p[1]].addr, nodes[p[2]].addr} :
        p \in {q \in (DOMAIN nodes) \X (DOMAIN nodes) :
                    Contains(nodes[q[1]].connections, q[2])}}

\* The scan of find_lowest_betweenness from position k on; found is FALSE
\* while lowest_betweenness still is f64::MAX.
RECURSIVE LowestFrom(_, _, _, _, _, _)
LowestFrom(nodes_idx, nodes, k, found, lowest, lowest_idx) ==
    IF k > Len(nodes_idx) THEN lowest_idx
    ELSE LET b == nodes[nodes_idx[k]].betweenness
         IN IF ~found \/ b < lowest
            THEN LowestFrom(nodes_idx, nodes, k + 1, TRUE, b, nodes_idx[k])
            ELSE LowestFrom(nodes_idx, nodes, k + 1, found, lowest, lowest_idx)

\* find_lowest_betweenness(nodes_idx, state); the initial index 0 of the
\* source is the first node, index 1 here.
find_lowest_betweenness(nodes_idx, nodes) ==
    LowestFrom(nodes_idx, nodes, 1, FALSE, 0, 1)

-----------------------------------------------------------------------------
(* The graph primitives consumed from the graph library *)

Vertices(graph) == UNION graph

Neighbours(graph, a) == {b \in Vertices(graph) : b # a /\ {a, b} \in graph}

\* The function f as an explicit table (f itself, with every value computed).
Table(f) == f @@ << >>

RECURSIVE SumOf(_, _)
SumOf(S, f) ==
    IF S = {} THEN 0
    ELSE LET x == CHOOSE y \in S : TRUE IN f[x] + SumOf(S \ {x}, f)

RECURSIVE Factorial(_)
Factorial(n) == IF n <= 1 THEN 1 ELSE n * Factorial(n - 1)

\* Breadth-first distances from the vertices of the frontier; -1 = unreachable.
RECURSIVE DistFrom(_, _, _, _, _)
DistFrom(graph, frontier, seen, d, dist) ==
    IF frontier = {} THEN dist
    ELSE LET next == UNION {Neighbours(graph, a) : a \in frontier} \ seen
         IN DistFrom(graph, next, seen \cup next, d + 1,
                     Table([x \in DOMAIN dist |->
                               IF x \in next THEN d + 1 ELSE dist[x]]))

Distances(graph) ==
    Table([s \in Vertices(graph) |->
              DistFrom(graph, {s}, {s}, 0,
                       Table([x \in Vertices(graph) |-> IF x = s THEN 0 ELSE -1]))])

\* Number of shortest paths from s to t (t reachable from s).
RECURSIVE PathCount(_, _, _, _)
PathCount(graph, dist, s, t) ==
    IF t = s THEN 1
    ELSE LET prev == {u \in Neighbours(graph, t) : dist[s][u] = dist[s][t] - 1}
         IN SumOf(prev, [u \in prev |-> PathCount(graph, dist, s, u)])

\* Graph::betweenness_centrality: for every vertex v the sum, over the
\* unordered pairs {s, t} of other vertices joined by a path, of the fraction
\* of the shortest s-t paths that pass through v.  The value is counted in
\* units of 1/Factorial(|V|), which keeps it an integer for the graphs of the
\* model; every use of betweenness in the model is invariant under scaling.
betweenness_centrality(graph) ==
    LET V == Vertices(graph)
        dist == Distances(graph)
        unit == Factorial(Cardinality(V))
        Through(v, s, t) ==
            IF dist[s][t] > 0 /\ dist[s][v] > 0 /\ dist[v][t] > 0
                  /\ dist[s][v] + dist[v][t] = dist[s][t]
            THEN (unit * PathCount(graph, dist, s, v) * PathCount(graph, dist, v, t))
                    \div PathCount(graph, dist, s, t)
            ELSE 0
    IN Table([v \in V |->
           LET pairs == {q \in V \X V : q[1] < q[2] /\ q[1] # v /\ q[2] # v}
           IN SumOf(pairs, [q \in pairs |-> Through(v, q[1], q[2])])])

\* Graph::degree_centrality: the number of edges incident to each vertex.
degree_centrality(graph) ==
    Table([v \in Vertices(graph) |-> Cardinality({e \in graph : v \in e})])

-----------------------------------------------------------------------------
(* algorithm.rs: generate_state *)

\* generate_state(nodes, true).  ok = FALSE stands for the panic of an
\* expect(): a node whose address is no vertex of the graph has no
\* betweenness to fetch, and an empty node vector has no degree factors.
generate_state(nodes) ==
    LET graph == construct_graph(nodes)
        betweenness == betweenness_centrality(graph)
    IN IF Len(nodes) = 0 \/ \E i \in DOMAIN nodes : nodes[i].addr \notin Vertices(graph)
       THEN [ok |-> FALSE, nodes |-> nodes, degrees |-> << >>]
       ELSE [ok |-> TRUE,
             nodes |-> [i \in DOMAIN nodes |->
                          [nodes[i] EXCEPT !.betweenness = betweenness[nodes[i].addr]]],
             degrees |-> degree_centrality(graph)]

\* Peer::generate_all_peerlists(nodes): one record per node, the addresses of
\* its connections in order (indices beyond the vector are skipped).
generate_all_peerlists(nodes) ==
    [i \in DOMAIN nodes |->
        [ip |-> nodes[i].addr,
         list |-> LET valid == SelectSeq(nodes[i].connections,
                                         LAMBDA c : c <= Len(nodes))
                  IN [k \in DOMAIN valid |-> nodes[valid[k]].addr]]]

-----------------------------------------------------------------------------
(* algorithm.rs: detect_islands *)

\* Variant of IslandBfs whose inner loop starts at the second connection.
RECURSIVE IslandBfsSkipFirst(_, _, _, _)
IslandBfsSkipFirst(nodes, queue, visited, island) ==
    IF queue = <<>> THEN [visited |-> visited, island |-> island]
    ELSE LET idx == Head(queue)
         IN IF idx \in visited
            THEN IslandBfsSkipFirst(nodes, Tail(queue), visited, island)
            ELSE LET seen == visited \cup {idx}
                     conns == nodes[idx].connections
                     pushed == SelectSeq(IF conns = <<>> THEN conns ELSE Tail(conns),
                                         LAMBDA c : c \notin seen)
                 IN IslandBfsSkipFirst(nodes, Tail(queue) \o pushed, seen,
                                       island \cup {idx})

\* The while-let loop of detect_islands: drains the queue, returns the
\* visited set and the island collected.
RECURSIVE IslandBfs(_, _, _, _)
IslandBfs(nodes, queue, visited, island) ==
    IF queue = <<>> THEN [visited |-> visited, island |-> island]
    ELSE LET idx == Head(queue)
         IN IF idx \in visited
            THEN IslandBfs(nodes, Tail(queue), visited, island)
            ELSE LET seen == visited \cup {idx}
                     pushed == SelectSeq(nodes[idx].connections,
                                         LAMBDA c : c \notin seen)
                 IN IslandBfs(nodes, Tail(queue) \o pushed, seen,
                              island \cup {idx})

\* Variant of IslandsFrom that starts a traversal at visited indices too.
RECURSIVE IslandsFromNoSkip(_, _, _, _)
IslandsFromNoSkip(nodes, i, visited, islands) ==
    IF i > Len(nodes) THEN islands
    ELSE LET r == IslandBfs(nodes, <<i>>, visited, {})
         IN IslandsFromNoSkip(nodes, i + 1, r.visited, Append(islands, r.island))

\* The for loop of detect_islands from index i on.
RECURSIVE IslandsFrom(_, _, _, _)
IslandsFrom(nodes, i, visited, islands) ==
    IF i > Len(nodes) THEN islands
    ELSE IF i \in visited THEN IslandsFrom(nodes, i + 1, visited, islands)
    ELSE LET r == IslandBfs(nodes, <<i>>, visited, {})
         IN IslandsFrom(nodes, i + 1, r.visited, Append(islands, r.island))

\* detect_islands(nodes): the Vec of islands, each a set of indices.
detect_islands(nodes) == IslandsFrom(nodes, 1, {}, <<>>)

\* (n as f64 * 0.1).round() as usize, for MASSIVE_ISLAND_PERCENTAGE and
\* NODES_TO_BE_REMOVED_PERCENTAGE alike.
TenPercent(n) == RoundDiv(n, 10)

\* Number of islands larger than 10% of n nodes.
MassiveIslands(islands, n) ==
    Cardinality({k \in DOMAIN islands : Cardinality(islands[k]) > TenPercent(n)})

-----------------------------------------------------------------------------
(* algorithm.rs: check_and_fix_integrity_upon_removal *)

\* The removal loop: for the k-th highest betweenness value, the first node
\* of the (already shrunk) test vector that carries it is removed and its
\* position recorded.
RECURSIVE RemoveTop(_, _, _, _, _)
RemoveTop(test_nodes, high_betweenness, k, nodes_to_remove, removed_idx) ==
    IF k > nodes_to_remove
    THEN [nodes |-> test_nodes, removed_idx |-> removed_idx]
    ELSE LET idx == CHOOSE i \in DOMAIN test_nodes :
                        /\ test_nodes[i].betweenness = high_betweenness[k]
                        /\ \A j \in 1..(i - 1) :
                               test_nodes[j].betweenness # high_betweenness[k]
         IN RemoveTop(remove_node(test_nodes, idx), high_betweenness, k + 1,
                      nodes_to_remove, Append(removed_idx, idx))

\* The repair loop over removed_idx[k..] on the nodes of the original state.
RECURSIVE Repair(_, _, _)
Repair(nodes, removed_idx, k) ==
    IF k > Len(removed_idx) THEN nodes
    ELSE LET conns == nodes[removed_idx[k]].connections
             node_a_idx == find_lowest_betweenness(conns, nodes)
             rest == SelectSeq(conns, LAMBDA x : x # node_a_idx)
             node_b_idx == find_lowest_betweenness(rest, nodes)
             with_a == [nodes EXCEPT ![node_a_idx].connections =
                                        Append(@, node_b_idx)]
             with_b == [with_a EXCEPT ![node_b_idx].connections =
                                        Append(@, node_a_idx)]
         IN Repair(with_b, removed_idx, k + 1)

\* Variant of check_and_fix_integrity_upon_removal that measures the islands
\* of the clone against 10% of the original node count.
check_and_fix_threshold_of_state(nodes) ==
    LET betweenness == [i \in DOMAIN nodes |-> nodes[i].betweenness]
        high_betweenness ==
            StableSortAsc(betweenness, [i \in DOMAIN nodes |-> 0 - betweenness[i]])
        nodes_to_remove == TenPercent(Len(high_betweenness))
        test == RemoveTop(nodes, high_betweenness, 1, nodes_to_remove, <<>>)
        islands == detect_islands(test.nodes)
        massive_island == IF Len(islands) > 1
                          THEN MassiveIslands(islands, Len(nodes))
                          ELSE 0
    IN IF massive_island > 1
       THEN [intact |-> FALSE, nodes |-> Repair(nodes, test.removed_idx, 1),
             removed_idx |-> test.removed_idx]
       ELSE [intact |-> TRUE, nodes |-> nodes, removed_idx |-> test.removed_idx]

\* check_and_fix_integrity_upon_removal(state): intact is the returned
\* bool, nodes the node vector of the state afterwards.
check_and_fix_integrity_upon_removal(nodes) ==
    LET betweenness == [i \in DOMAIN nodes |-> nodes[i].betweenness]
        high_betweenness ==
            StableSortAsc(betweenness, [i \in DOMAIN nodes |-> 0 - betweenness[i]])
        nodes_to_remove == TenPercent(Len(high_betweenness))
        test == RemoveTop(nodes, high_betweenness, 1, nodes_to_remove, <<>>)
        islands == detect_islands(test.nodes)
        massive_island == IF Len(islands) > 1
                          THEN MassiveIslands(islands, Len(test.nodes))
                          ELSE 0
    IN IF massive_island > 1
       THEN [intact |-> FALSE, nodes |-> Repair(nodes, test.removed_idx, 1),
             removed_idx |-> test.removed_idx]
       ELSE [intact |-> TRUE, nodes |-> nodes, removed_idx |-> test.removed_idx]

-----------------------------------------------------------------------------
(* algorithm.rs: the MCDA loop of generate *)

Min(a, b) == IF a < b THEN a ELSE b

Take(s, n) == SubSeq(s, 1, Min(n, Len(s)))

\* degree_centrality_avg(degrees).round() as u32
DesiredDegree(degrees) ==
    IF DOMAIN degrees = {} THEN 0
    ELSE RoundDiv(SumOf(DOMAIN degrees, degrees), Cardinality(DOMAIN degrees))

\* u32::MAX of the model: unsigned integers are U32Bits wide.
U32Max == 2 ^ U32Bits - 1

\* u32::saturating_sub and u32::saturating_add
SaturatingSub(a, b) == IF a < b THEN 0 ELSE a - b

SaturatingAdd(a, b) == Min(a + b, U32Max)

\* u32 addition that wraps around.
WrappingAdd(a, b) == (a + b) % (U32Max + 1)

\* peers_to_delete_count after the clamp to change_no_more
PeersToDelete(degree, desired_degree, cfg) ==
    Min(IF desired_degree < degree THEN SaturatingSub(degree, desired_degree)
        ELSE cfg.change_at_least,
        cfg.change_no_more)

\* Variant of PeersToAdd whose sum wraps around.
PeersToAddWrapping(degree, desired_degree, cfg) ==
    Min(IF desired_degree > degree
        THEN WrappingAdd(SaturatingSub(desired_degree, degree),
                         PeersToDelete(degree, desired_degree, cfg))
        ELSE cfg.change_at_least,
        cfg.change_no_more)

\* peers_to_add_count after the clamp to change_no_more
PeersToAdd(degree, desired_degree, cfg) ==
    Min(IF desired_degree > degree
        THEN SaturatingAdd(SaturatingSub(desired_degree, degree),
                           PeersToDelete(degree, desired_degree, cfg))
        ELSE cfg.change_at_least,
        cfg.change_no_more)

\* The drop loop "while peers_to_delete_count > 0": the lowest rated entry is
\* popped; a bridge peer takes the continue (the popped entry is gone and the
\* quota is not charged), any other peer is removed with all its equal
\* entries and charged; an empty list charges the quota.
RECURSIVE DropPeers(_, _, _, _)
DropPeers(curr, count, u, br) ==
    IF count = 0 THEN curr
    ELSE IF curr = <<>> THEN DropPeers(curr, count - 1, u, br)
    ELSE LET peer == curr[Len(curr)]
             popped == SubSeq(curr, 1, Len(curr) - 1)
         IN IF peer.index \in DOMAIN br /\ u \in br[peer.index]
            THEN DropPeers(popped, count, u, br)
            ELSE DropPeers(SelectSeq(popped, LAMBDA x : x # peer),
                           count - 1, u, br)

\* Sort of PeerEntry values by rating, highest first (stable).
SortByRating(entries) ==
    StableSortAsc(entries, [k \in DOMAIN entries |-> 0 - entries[k].rating])

AbsDiff(a, b) == IF a < b THEN b - a ELSE a - b

\* The first retain(): "Remove potential peers identified to have too high
\* degree and have already been processed by the algorithm".
RetainNotToppedUp(peer_ratings, working, final) ==
    SelectSeq(peer_ratings, LAMBDA x :
        Len(final[x.index].connections) < Len(working[x.index].connections))

\* The candidate pool for node u after the three retain() calls.
CandidatePool(u, peer_ratings, working, final, cfg) ==
    SelectSeq(RetainNotToppedUp(peer_ratings, working, final), LAMBDA x :
        /\ AbsDiff(Len(final[x.index].connections),
                   Len(working[x.index].connections)) <= cfg.change_no_more
        /\ x.index # u)

\* Variant of PeersToPush that takes the best rated candidates as they are.
PeersToPushByRating(u, pool, peers_to_add_count, working, final) ==
    LET sorted == SortByRating(pool)
        unconnected == SelectSeq(sorted, LAMBDA x :
                          /\ ~Contains(final[x.index].connections, u)
                          /\ ~Contains(final[u].connections, x.index))
    IN Take(unconnected, peers_to_add_count)

\* The peers chosen by the add phase for node u, in the order they are pushed.
PeersToPush(u, pool, peers_to_add_count, working, final) ==
    LET sorted == SortByRating(pool)
        unconnected == SelectSeq(sorted, LAMBDA x :
                          /\ ~Contains(final[x.index].connections, u)
                          /\ ~Contains(final[u].connections, x.index))
        candidates == Take(unconnected, 2 * peers_to_add_count)
        by_betweenness == StableSortAsc(candidates,
                             [k \in DOMAIN candidates |->
                                 working[candidates[k].index].betweenness])
    IN Take(by_betweenness, peers_to_add_count)

\* Variant of CurrentPeers that loads the connections of the working state.
CurrentPeersOfWorking(u, working, final) == working[u].connections

\* "Load peerlist with current connections": the connections of node u in
\* final_state, as left by the iterations before.
CurrentPeers(u, working, final) == final[u].connections

\* One iteration of the MCDA loop for node u with the ratings peer_ratings
\* (constant factors plus the location rating for u): the nodes of
\* final_state after the iteration.
McdaIteration(u, ratings, working, degrees, final, br, cfg) ==
    LET peer_ratings == [i \in DOMAIN working |-> [index |-> i, rating |-> ratings[i]]]
        current == CurrentPeers(u, working, final)
        curr_peer_ratings == [k \in DOMAIN current |-> peer_ratings[current[k]]]
        degree == degrees[working[u].addr]
        desired_degree == DesiredDegree(degrees)
        peers_to_delete_count == PeersToDelete(degree, desired_degree, cfg)
        peers_to_add_count == PeersToAdd(degree, desired_degree, cfg)
        pool == CandidatePool(u, peer_ratings, working, final, cfg)
        surviving == DropPeers(SortByRating(curr_peer_ratings),
                               peers_to_delete_count, u, br)
        pushed == PeersToPush(u, pool, peers_to_add_count, working, final)
        new_peers == SeqToSet([k \in DOMAIN surviving |-> surviving[k].index])
                        \cup SeqToSet([k \in DOMAIN pushed |-> pushed[k].index])
    IN IF peers_to_add_count > 0
       THEN [i \in DOMAIN final |->
               IF i = u
               THEN [final[i] EXCEPT !.connections = SortedSeq(new_peers \ {u})]
               ELSE IF \E k \in DOMAIN pushed : pushed[k].index = i
               THEN [final[i] EXCEPT !.connections = Append(@, u)]
               ELSE final[i]]
       ELSE final

-----------------------------------------------------------------------------
(* Inputs of the graph utilities *)

\* Node vectors of n nodes with pairwise distinct addresses, any adjacency
\* lists over valid indices (symmetric or not, self-loops allowed) and the
\* given betweenness values.
MakeNodes(n, conn, btw) ==
    [i \in 1..n |-> [addr |-> i, betweenness |-> btw[i],
                     connections |-> SortedSeq(conn[i])]]

\* Threshold adjustments in quarters: 0, 1.0, 1.25 (the default) and 2.0.
ThresholdAdjustments == {0, 4, 5, 8}

\* i is listed by j exactly when j is listed by i.
SymmetricAdjacency(nodes) ==
    \A i, j \in DOMAIN nodes :
        Contains(nodes[i].connections, j) <=> Contains(nodes[j].connections, i)

ValidIndices(nodes) ==
    \A i \in DOMAIN nodes : SeqToSet(nodes[i].connections) \subseteq DOMAIN nodes

\* The undirected address-to-address edges a rebuilt graph would hold.
AddrEdges(nodes) ==
    {{nodes[p[1]].addr, nodes[p[2]].addr} :
        p \in {q \in (DOMAIN nodes) \X (DOMAIN nodes) :
                    Contains(nodes[q[1]].connections, q[2])}}

-----------------------------------------------------------------------------
\* The variables of generate while a graph utility is checked on its own.
GenIdle ==
    /\ config = <<>>
    /\ working_state = <<>>
    /\ final_state = <<>>
    /\ bridges = <<>>
    /\ node_idx = 0
    /\ peer_list = <<>>

(* Specification of remove_node *)

InitRemove ==
    /\ pc = "call"
    /\ \E n \in 1..MaxUtilNodes :
          \E conn \in [1..n -> SUBSET (1..n)] :
             nodes_in = MakeNodes(n, conn, [i \in 1..n |-> 0])
    /\ arg \in DOMAIN nodes_in
    /\ result = <<>>
    /\ GenIdle

RemoveNodeCall ==
    /\ pc = "call"
    /\ result' = remove_node(nodes_in, arg)
    /\ pc' = "returned"
    /\ UNCHANGED <<nodes_in, arg>>
    /\ UNCHANGED genVars

NextRemove == RemoveNodeCall

SpecRemove == InitRemove /\ [][NextRemove]_vars

(* Specification of detect_islands *)

InitIslands ==
    /\ pc = "call"
    /\ \E n \in 1..MaxUtilNodes :
          \E conn \in [1..n -> SUBSET (1..n)] :
             nodes_in = MakeNodes(n, conn, [i \in 1..n |-> 0])
    /\ arg = 0
    /\ result = <<>>
    /\ GenIdle

DetectIslandsCall ==
    /\ pc = "call"
    /\ result' = detect_islands(nodes_in)
    /\ pc' = "returned"
    /\ UNCHANGED <<nodes_in, arg>>
    /\ UNCHANGED genVars

NextIslands == DetectIslandsCall

SpecIslands == InitIslands /\ [][NextIslands]_vars

(* Specification of find_bridges *)

InitBridges ==
    /\ pc = "call"
    /\ \E n \in 1..MaxUtilNodes :
          \E conn \in [1..n -> SUBSET (1..n)], btw \in [1..n -> 0..MaxBtw] :
             nodes_in = MakeNodes(n, conn, btw)
    /\ arg \in ThresholdAdjustments
    /\ result = <<>>
    /\ GenIdle

FindBridgesCall ==
    /\ pc = "call"
    /\ result' = find_bridges(nodes_in, arg)
    /\ pc' = "returned"
    /\ UNCHANGED <<nodes_in, arg>>
    /\ UNCHANGED genVars

NextBridges == FindBridgesCall

SpecBridges == InitBridges /\ [][NextBridges]_vars

-----------------------------------------------------------------------------
(* Specification of Ips::generate *)

UtilIdle ==
    /\ arg = 0
    /\ result = <<>>

\* The node vector filter_network hands to generate: n nodes with pairwise
\* distinct addresses and a symmetric adjacency given by the undirected edges
\* E (at most MaxEdges of them); a node without any neighbour is connected
\* to itself.
NetworkNodes(n, E) ==
    [i \in 1..n |->
        LET peers == {j \in 1..n : <<i, j>> \in E \/ <<j, i>> \in E}
        IN [addr |-> i, betweenness |-> 0,
            connections |-> IF peers = {} THEN <<i>> ELSE SortedSeq(peers)]]

NetworkVectors ==
    UNION {{NetworkNodes(n, E) :
                E \in {F \in SUBSET {q \in (1..n) \X (1..n) : q[1] < q[2]} :
                           Cardinality(F) <= MaxEdges}}
           : n \in 1..MaxNodes}

\* change_at_least and change_no_more are free; the bridge threshold
\* adjustment is the default 1.25 (five quarters).
Configurations ==
    [change_at_least : 0..MaxChangeAtLeast, change_no_more : 0..MaxChangeNoMore,
     bridge_threshold_adjustment : {5}]

\* The ratings an iteration of the MCDA loop can see: the constant rating of
\* each node plus the location rating relative to the node processed, both
\* free through the weights and the geolocation of the nodes.
Ratings(n) == [1..n -> 0..MaxRating]

Init ==
    /\ pc = "start"
    /\ nodes_in \in NetworkVectors
    /\ config \in Configurations
    /\ working_state = <<>>
    /\ final_state = <<>>
    /\ bridges = <<>>
    /\ node_idx = 0
    /\ peer_list = <<>>
    /\ UtilIdle

\* working_state = generate_state(network_nodes, true); final_state = clone
GenerateInitialState ==
    /\ pc = "start"
    /\ LET st == generate_state(nodes_in)
       IN IF st.ok
          THEN /\ working_state' = st
               /\ final_state' = st
               /\ pc' = "detect_islands"
          ELSE /\ pc' = "panic_state"
               /\ UNCHANGED <<working_state, final_state>>
    /\ UNCHANGED <<nodes_in, arg, result, config, bridges, node_idx, peer_list>>

\* Phase 1: island detection; panics on more than one massive island.
DetectIslands ==
    /\ pc = "detect_islands"
    /\ LET islands == detect_islands(working_state.nodes)
       IN IF Len(islands) > 1
             /\ MassiveIslands(islands, Len(working_state.nodes)) > 1
          THEN pc' = "panic_islands"
          ELSE pc' = "check_integrity"
    /\ UNCHANGED <<nodes_in, arg, result, config, working_state, final_state,
                   bridges, node_idx, peer_list>>

\* The integrity probe; the working state is regenerated after a repair.
CheckIntegrity ==
    /\ pc = "check_integrity"
    /\ LET probe == check_and_fix_integrity_upon_removal(working_state.nodes)
           st == generate_state(probe.nodes)
       IN IF probe.intact
          THEN /\ pc' = "find_bridges"
               /\ UNCHANGED working_state
          ELSE IF st.ok
          THEN /\ pc' = "find_bridges"
               /\ working_state' = st
          ELSE /\ pc' = "panic_state"
               /\ UNCHANGED working_state
    /\ UNCHANGED <<nodes_in, arg, result, config, final_state, bridges,
                   node_idx, peer_list>>

\* degree average, bridges and constant factors are taken before the loop.
FindBridges ==
    /\ pc = "find_bridges"
    /\ bridges' = find_bridges(working_state.nodes,
                               config.bridge_threshold_adjustment)
    /\ node_idx' = 1
    /\ pc' = "mcda"
    /\ UNCHANGED <<nodes_in, arg, result, config, working_state, final_state,
                   peer_list>>

\* One iteration of "for (node_idx, node) in working_state.nodes".
McdaStep ==
    /\ pc = "mcda"
    /\ node_idx <= Len(working_state.nodes)
    /\ \E ratings \in Ratings(Len(working_state.nodes)) :
          final_state' = [final_state EXCEPT !.nodes =
              McdaIteration(node_idx, ratings, working_state.nodes,
                            working_state.degrees, final_state.nodes,
                            bridges, config)]
    /\ node_idx' = node_idx + 1
    /\ UNCHANGED <<pc, nodes_in, arg, result, config, working_state, bridges,
                   peer_list>>

\* final_state = generate_state(final_state.nodes, true); return peer_list
ReturnPeerList ==
    /\ pc = "mcda"
    /\ node_idx > Len(working_state.nodes)
    /\ LET st == generate_state(final_state.nodes)
       IN IF st.ok
          THEN /\ final_state' = st
               /\ peer_list' = generate_all_peerlists(final_state.nodes)
               /\ pc' = "done"
          ELSE /\ pc' = "panic_state"
               /\ UNCHANGED <<final_state, peer_list>>
    /\ UNCHANGED <<nodes_in, arg, result, config, working_state, bridges,
                   node_idx>>

Next ==
    \/ GenerateInitialState
    \/ DetectIslands
    \/ CheckIntegrity
    \/ FindBridges
    \/ McdaStep
    \/ ReturnPeerList

Spec == Init /\ [][Next]_vars

-----------------------------------------------------------------------------
(* Specification of check_and_fix_integrity_upon_removal *)

\* The states the probe is called with: the initial state generate builds of
\* a network of up to MaxNodes nodes (any set of undirected edges).
InitIntegrity ==
    /\ pc = "call"
    /\ \E n \in 1..MaxNodes :
          \E E \in SUBSET {q \in (1..n) \X (1..n) : q[1] < q[2]} :
             nodes_in = generate_state(NetworkNodes(n, E)).nodes
    /\ arg = 0
    /\ result = <<>>
    /\ GenIdle

CheckIntegrityCall ==
    /\ pc = "call"
    /\ result' = check_and_fix_integrity_upon_removal(nodes_in)
    /\ pc' = "returned"
    /\ UNCHANGED <<nodes_in, arg>>
    /\ UNCHANGED genVars

NextIntegrity == CheckIntegrityCall

SpecIntegrity == InitIntegrity /\ [][NextIntegrity]_vars

-----------------------------------------------------------------------------
(* Properties of the graph utilities *)

\* Indices joined to i by a path of connections (either direction of a
\* listing counts as an edge); computed as a closure, independently of the
\* traversal of detect_islands.
RECURSIVE ReachClosure(_, _)
ReachClosure(nodes, S) ==
    LET next == S \cup {j \in DOMAIN nodes : \E i \in S :
                            \/ Contains(nodes[i].connections, j)
                            \/ Contains(nodes[j].connections, i)}
    IN IF next = S THEN S ELSE ReachClosure(nodes, next)

PathJoins(nodes, i, j) == j \in ReachClosure(nodes, {i})

\* The island (position in the result) a node index is in.
IslandsOf(islands, i) == {k \in DOMAIN islands : i \in islands[k]}

\* C5: for a node vector with symmetric adjacency and pairwise distinct
\* addresses, remove_node leaves one node fewer, only valid indices, a
\* symmetric adjacency, and exactly the address-to-address edges of the
\* original that are not incident to the removed node.
C5_RemoveNodeIndexStability ==
    (pc = "returned" /\ SymmetricAdjacency(nodes_in)) =>
        /\ Len(result) = Len(nodes_in) - 1
        /\ ValidIndices(result)
        /\ SymmetricAdjacency(result)
        /\ AddrEdges(result) =
              {e \in AddrEdges(nodes_in) : nodes_in[arg].addr \notin e}

\* A removal in the middle of a symmetric vector: the removed node has a
\* neighbour, and a surviving node lists an index above the removed one.
C5_Witness ==
    /\ pc = "returned"
    /\ SymmetricAdjacency(nodes_in)
    /\ Len(nodes_in) = 3
    /\ arg = 2
    /\ Contains(nodes_in[2].connections, 1)
    /\ Contains(nodes_in[1].connections, 3)
    /\ Contains(result[1].connections, 2)

\* C6: for every node vector with valid indices the islands returned by
\* detect_islands are non-empty, pairwise disjoint and cover all indices.
C6_IslandPartition ==
    pc = "returned" =>
        /\ \A k \in DOMAIN result : result[k] # {}
        /\ \A k, l \in DOMAIN result : k # l => result[k] \cap result[l] = {}
        /\ UNION {result[k] : k \in DOMAIN result} = DOMAIN nodes_in

\* An asymmetric vector with a self-loop whose later node lists an index that
\* an earlier island already holds.
C6_Witness ==
    /\ pc = "returned"
    /\ ~SymmetricAdjacency(nodes_in)
    /\ Len(nodes_in) = 3
    /\ Contains(nodes_in[1].connections, 1)
    /\ Contains(nodes_in[3].connections, 1)
    /\ Len(result) >= 2

\* C7: for a symmetric vector two indices share an island exactly when a path
\* of connections joins them; a complete graph gives one island, a vector of
\* nodes connected only to themselves gives one island per node.
C7_IslandsAreComponents ==
    (pc = "returned" /\ SymmetricAdjacency(nodes_in)) =>
        /\ \A i, j \in DOMAIN nodes_in :
              (IslandsOf(result, i) \cap IslandsOf(result, j) # {})
                  <=> PathJoins(nodes_in, i, j)
        /\ (\A i, j \in DOMAIN nodes_in :
                i # j => Contains(nodes_in[i].connections, j))
              => Len(result) = 1
        /\ (\A i \in DOMAIN nodes_in : nodes_in[i].connections = <<i>>)
              => Len(result) = Len(nodes_in)

\* A symmetric vector of three nodes that falls into an island of two (joined
\* through the second connection of node 1) and an island of one.
C7_Witness ==
    /\ pc = "returned"
    /\ SymmetricAdjacency(nodes_in)
    /\ Len(nodes_in) = 3
    /\ nodes_in[1].connections = <<1, 3>>
    /\ Len(result) = 2
    /\ result[1] = {1, 3}

\* Strictly above the threshold median * adjustment.
AboveThreshold(nodes, i, adj4) ==
    8 * nodes[i].betweenness >
        median_x2([k \in DOMAIN nodes |-> nodes[k].betweenness])[1] * adj4

InBridges(map, u, v) == u \in DOMAIN map /\ v \in map[u]

\* C9: find_bridges puts v into bridges[u] exactly when the two are connected
\* and both have a betweenness strictly above the threshold (vectors of fewer
\* than two nodes have no bridges).
C9_BridgeRuleStrict ==
    pc = "returned" =>
        \A u, v \in DOMAIN nodes_in :
            InBridges(result, u, v) <=>
                /\ Len(nodes_in) >= 2
                /\ \/ Contains(nodes_in[u].connections, v)
                   \/ Contains(nodes_in[v].connections, u)
                /\ AboveThreshold(nodes_in, u, arg)
                /\ AboveThreshold(nodes_in, v, arg)

\* C10: the map returned by find_bridges is symmetric and has no empty set.
C10_BridgesSymmetric ==
    pc = "returned" =>
        \A u \in DOMAIN result :
            /\ result[u] # {}
            /\ \A v \in result[u] : InBridges(result, v, u)

\* A bridge recorded for an edge that only one endpoint lists.
C10_Witness ==
    /\ pc = "returned"
    /\ \E u, v \in DOMAIN nodes_in :
          /\ u # v
          /\ InBridges(result, u, v)
          /\ Contains(nodes_in[u].connections, v)
          /\ ~Contains(nodes_in[v].connections, u)

-----------------------------------------------------------------------------
(* Properties of Ips::generate *)

\* The MCDA loop has processed every node (final_state is not yet rebuilt).
AfterMcda == pc = "mcda" /\ node_idx > Len(working_state.nodes)

ConnectionSet(nodes, i) == SeqToSet(nodes[i].connections)

SymmetricDifference(A, B) == (A \ B) \cup (B \ A)

\* C1: every edge (u,v) that find_bridges reported on the working node vector
\* is still listed by both endpoints of the final state after the MCDA loop.
C1_BridgePreservation ==
    AfterMcda =>
        \A u \in DOMAIN bridges : \A v \in bridges[u] :
            /\ Contains(final_state.nodes[u].connections, v)
            /\ Contains(final_state.nodes[v].connections, u)

\* C2: a symmetric adjacency entering the MCDA loop gives a symmetric
\* adjacency of the final state after the loop.
C2_SymmetricAfterMcda ==
    (AfterMcda /\ SymmetricAdjacency(nodes_in)
        /\ SymmetricAdjacency(working_state.nodes))
        => SymmetricAdjacency(final_state.nodes)

\* C3: after the MCDA loop the connections of every node differ from its
\* connections at the start of the loop in at most 2 * change_no_more peers.
C3_QuotaEnvelope ==
    AfterMcda =>
        \A i \in DOMAIN final_state.nodes :
            Cardinality(SymmetricDifference(ConnectionSet(final_state.nodes, i),
                                            ConnectionSet(nodes_in, i)))
                <= 2 * config.change_no_more

\* C4: after the MCDA loop no node of the final state lists itself.
C4_NoSelfLoops ==
    AfterMcda =>
        \A i \in DOMAIN final_state.nodes :
            ~Contains(final_state.nodes[i].connections, i)

\* More than one island of the initial node vector is massive.
SeveralMassiveIslands ==
    MassiveIslands(detect_islands(nodes_in), Len(nodes_in)) > 1

\* C8: generate aborts exactly when the initial node vector has more than one
\* massive island; otherwise it goes on to the integrity probe and the MCDA
\* loop and returns a peer list.
C8_AbortIffSeveralMassiveIslands ==
    /\ pc \in {"panic_islands", "panic_state"} => SeveralMassiveIslands
    /\ pc \in {"check_integrity", "find_bridges", "mcda", "done"}
          => ~SeveralMassiveIslands

-----------------------------------------------------------------------------
(* Properties of check_and_fix_integrity_upon_removal *)

\* The k nodes of highest betweenness (ties: lowest index first), as indices
\* of the original vector.
RECURSIVE TopNodes(_, _, _)
TopNodes(nodes, k, removed) ==
    IF k = 0 THEN removed
    ELSE LET left == DOMAIN nodes \ removed
             top == CHOOSE i \in left :
                        \A j \in left :
                            \/ nodes[j].betweenness < nodes[i].betweenness
                            \/ nodes[j].betweenness = nodes[i].betweenness /\ i <= j
         IN TopNodes(nodes, k - 1, removed \cup {top})

\* Indices of S joined to a member of S by connections that stay within the
\* set allowed.
RECURSIVE ReachWithin(_, _, _)
ReachWithin(nodes, S, allowed) ==
    LET next == S \cup {j \in allowed : \E i \in S :
                            \/ Contains(nodes[i].connections, j)
                            \/ Contains(nodes[j].connections, i)}
    IN IF next = S THEN S ELSE ReachWithin(nodes, next, allowed)

\* The connected components left when the top 10% of the nodes are taken
\* out that are larger than 10% of the remaining node count.
MassiveAfterRemoval(nodes) ==
    LET survivors == DOMAIN nodes \ TopNodes(nodes, TenPercent(Len(nodes)), {})
        components == {ReachWithin(nodes, {i}, survivors) : i \in survivors}
    IN {c \in components : Cardinality(c) > TenPercent(Cardinality(survivors))}

\* C11: the probe returns false exactly when the removal of the
\* round(0.1*V) nodes of highest betweenness leaves more than one island
\* larger than round(0.1*|clone|); when it returns true the node vector of
\* the state is unchanged.
C11_IntegrityProbeOutcome ==
    pc = "returned" =>
        /\ (~result.intact) <=> Cardinality(MassiveAfterRemoval(nodes_in)) > 1
        /\ result.intact => result.nodes = nodes_in

\* Five nodes, one of them removed by the probe, the rest falling apart: the
\* probe returns false and repairs the state.
C11_Witness ==
    /\ pc = "returned"
    /\ Len(nodes_in) = 5
    /\ Len(result.removed_idx) = 1
    /\ ~result.intact
    /\ result.nodes # nodes_in

-----------------------------------------------------------------------------
(* normalization.rs *)

\* Iterator::min_by / max_by over a non-empty list: the reduction that keeps
\* the smaller (larger) of the accumulator and the next element.
RECURSIVE MinBy(_, _, _)
MinBy(list, k, acc) ==
    IF k > Len(list) THEN acc
    ELSE MinBy(list, k + 1, IF list[k] < acc THEN list[k] ELSE acc)

RECURSIVE MaxBy(_, _, _)
MaxBy(list, k, acc) ==
    IF k > Len(list) THEN acc
    ELSE MaxBy(list, k + 1, IF list[k] >= acc THEN list[k] ELSE acc)

\* Variant of determine that reduces with min_by for both factors.
determine_min_twice(list) ==
    IF Len(list) = 0 THEN [ok |-> FALSE]
    ELSE [ok |-> TRUE, min |-> MinBy(list, 2, list[1]),
          max |-> MinBy(list, 2, list[1])]

\* NormalizationFactors::determine(list); ok = FALSE is the panic of
\* unwrap() on the None that min_by returns for an empty list.
determine(list) ==
    IF Len(list) = 0 THEN [ok |-> FALSE]
    ELSE [ok |-> TRUE, min |-> MinBy(list, 2, list[1]),
          max |-> MaxBy(list, 2, list[1])]

\* Variant of scale without the guard against min = max (the quotient 0/0
\* is written with denominator 0).
scale_unguarded(factors, value) ==
    [num |-> value - factors.min, den |-> factors.max - factors.min]

\* NormalizationFactors::scale(value): the quotient as the pair
\* (numerator, denominator); 0.0 is 0/1.
scale(factors, value) ==
    IF factors.min = factors.max THEN [num |-> 0, den |-> 1]
    ELSE [num |-> value - factors.min, den |-> factors.max - factors.min]

\* Series of at most MaxSeriesLen values of -MaxValue..MaxValue.
Series == UNION {[1..n -> (0 - MaxValue)..MaxValue] : n \in 0..MaxSeriesLen}

(* Specification of NormalizationFactors: determine, then scale *)

InitNormalization ==
    /\ pc = "call"
    /\ nodes_in \in Series
    /\ arg \in (0 - MaxValue - 1)..(MaxValue + 1)
    /\ result = <<>>
    /\ GenIdle

DetermineCall ==
    /\ pc = "call"
    /\ result' = determine(nodes_in)
    /\ pc' = IF determine(nodes_in).ok THEN "determined" ELSE "panic"
    /\ UNCHANGED <<nodes_in, arg>>
    /\ UNCHANGED genVars

ScaleCall ==
    /\ pc = "determined"
    /\ result' = [factors |-> result, scaled |-> scale(result, arg)]
    /\ pc' = "scaled"
    /\ UNCHANGED <<nodes_in, arg>>
    /\ UNCHANGED genVars

NextNormalization == DetermineCall \/ ScaleCall

SpecNormalization == InitNormalization /\ [][NextNormalization]_vars

\* C12: with min < max, scale(x) = (x - min) / (max - min): 0 at min, 1 at
\* max, within [0,1] for x in [min,max] and outside it otherwise; with
\* min = max, scale is 0 for every input.
C12_ScaleRange ==
    pc = "scaled" =>
        LET f == result.factors
            q == result.scaled
        IN /\ q.den > 0
           /\ f.min < f.max =>
                 /\ q.num * (f.max - f.min) = (arg - f.min) * q.den
                 /\ arg = f.min => q.num = 0
                 /\ arg = f.max => q.num = q.den
                 /\ (f.min <= arg /\ arg <= f.max) => (0 <= q.num /\ q.num <= q.den)
                 /\ arg > f.max => q.num > q.den
                 /\ arg < f.min => q.num < 0
           /\ f.min = f.max => q.num = 0

\* A value scaled by factors 0 and 2 to one half.
C12_Witness ==
    /\ pc = "scaled"
    /\ result.factors.min = 0
    /\ result.factors.max = 2
    /\ arg = 1
    /\ 2 * result.scaled.num = result.scaled.den

\* C13: determine of a non-empty series returns its smallest and largest
\* element (so min <= max and every element is in between); on an empty
\* series it fails.
C13_DetermineMinMax ==
    /\ pc = "panic" => Len(nodes_in) = 0
    /\ pc = "determined" =>
          /\ Len(nodes_in) > 0
          /\ result.ok
          /\ \E i \in DOMAIN nodes_in : nodes_in[i] = result.min
          /\ \E i \in DOMAIN nodes_in : nodes_in[i] = result.max
          /\ \A i \in DOMAIN nodes_in :
                 result.min <= nodes_in[i] /\ nodes_in[i] <= result.max
          /\ result.min <= result.max

\* A series in no particular order whose extremes are neither first nor last.
C13_Witness ==
    /\ pc = "determined"
    /\ nodes_in = <<0, 2, -1>>
    /\ result.min = -1
    /\ result.max = 2

-----------------------------------------------------------------------------
(* statistics.rs: median and the averages *)

(* Specification of median *)

\* arg keeps the series as it was when the call was made.
InitMedian ==
    /\ pc = "call"
    /\ nodes_in \in Series
    /\ arg = nodes_in
    /\ result = <<>>
    /\ GenIdle

\* median sorts a copy (list.to_vec()); the caller's series is borrowed
\* immutably.
MedianCall ==
    /\ pc = "call"
    /\ result' = median_x2(nodes_in)
    /\ pc' = "returned"
    /\ UNCHANGED <<nodes_in, arg>>
    /\ UNCHANGED genVars

NextMedian == MedianCall

SpecMedian == InitMedian /\ [][NextMedian]_vars

\* The k-th smallest value of a series (k from 1), by counting.
KthSmallest(list, k) ==
    CHOOSE x \in SeqToSet(list) :
        /\ Cardinality({i \in DOMAIN list : list[i] < x}) < k
        /\ k <= Cardinality({i \in DOMAIN list : list[i] <= x})

\* C14: the median of a non-empty series in any order is the middle element
\* of the ascending series (odd length) or the mean of its two central
\* elements (even length); of an empty series it is None; the series handed
\* in is unchanged.  (result holds twice the median.)
C14_Median ==
    pc = "returned" =>
        LET n == Len(nodes_in)
        IN /\ nodes_in = arg
           /\ n = 0 => result = <<>>
           /\ (n > 0 /\ n % 2 = 1) =>
                 result = <<2 * KthSmallest(nodes_in, (n + 1) \div 2)>>
           /\ (n > 0 /\ n % 2 = 0) =>
                 result = <<KthSmallest(nodes_in, n \div 2)
                            + KthSmallest(nodes_in, n \div 2 + 1)>>

\* An unsorted series of three values whose median is its last element.
C14_Witness ==
    /\ pc = "returned"
    /\ nodes_in = <<2, -1, 0>>
    /\ result = <<0>>

\* Variant of centrality_avg without the guard for an empty input.
centrality_avg_no_guard(values) ==
    LET Fold[k \in 0..Len(values)] ==
            IF k = 0 THEN 0 ELSE Fold[k - 1] + values[k]
    IN [num |-> Fold[Len(values)], den |-> Len(values)]

\* centrality_avg(values): 0.0 (0/1) on an empty slice, otherwise the fold
\* of the values divided by their count, as (numerator, denominator).
centrality_avg(values) ==
    IF Len(values) = 0 THEN [num |-> 0, den |-> 1]
    ELSE LET Fold[k \in 0..Len(values)] ==
                 IF k = 0 THEN 0 ELSE Fold[k - 1] + values[k]
         IN [num |-> Fold[Len(values)], den |-> Len(values)]

\* degree_centrality_avg(degrees): 0.0 on an empty map, otherwise the fold
\* of the degrees divided by the number of entries.
degree_centrality_avg(degrees) ==
    IF DOMAIN degrees = {} THEN [num |-> 0, den |-> 1]
    ELSE [num |-> SumOf(DOMAIN degrees, degrees),
          den |-> Cardinality(DOMAIN degrees)]

(* Specification of the averages *)

InitAverages ==
    /\ pc = "call"
    /\ nodes_in \in Series
    /\ arg = 0
    /\ result = <<>>
    /\ GenIdle

CentralityAvgCall ==
    /\ pc = "call"
    /\ result' = centrality_avg(nodes_in)
    /\ pc' = "returned_centrality_avg"
    /\ UNCHANGED <<nodes_in, arg>>
    /\ UNCHANGED genVars

\* The series read as a map from address i to the degree nodes_in[i] (u32).
DegreeCentralityAvgCall ==
    /\ pc = "call"
    /\ \A i \in DOMAIN nodes_in : nodes_in[i] >= 0
    /\ result' = degree_centrality_avg(nodes_in)
    /\ pc' = "returned_degree_avg"
    /\ UNCHANGED <<nodes_in, arg>>
    /\ UNCHANGED genVars

NextAverages == CentralityAvgCall \/ DegreeCentralityAvgCall

SpecAverages == InitAverages /\ [][NextAverages]_vars

\* Sum over the series of the deviations den * x - num from the value
\* num/den.
RECURSIVE Deviations(_, _, _)
Deviations(list, num, den) ==
    IF list = <<>> THEN 0
    ELSE (den * Head(list) - num) + Deviations(Tail(list), num, den)

\* C15: both averages are 0 for an empty input and otherwise the arithmetic
\* mean: a quotient over the count of the values around which the
\* deviations of the values cancel.
C15_Averages ==
    pc \in {"returned_centrality_avg", "returned_degree_avg"} =>
        /\ result.den > 0
        /\ Len(nodes_in) = 0 => result.num = 0
        /\ Len(nodes_in) > 0 =>
              /\ result.den = Len(nodes_in)
              /\ Deviations(nodes_in, result.num, result.den) = 0

\* The mean 2/3 of the three values 2, -1, 1.
C15_Witness ==
    /\ pc = "returned_centrality_avg"
    /\ nodes_in = <<2, -1, 1>>
    /\ result.num = 2
    /\ result.den = 3

-----------------------------------------------------------------------------
(* Properties of the value generate returns *)

NoRepeats(list) ==
    \A k, l \in DOMAIN list : k # l => list[k] # list[l]

\* C16: generate returns one Peer per node of the final node vector, in
\* index order; each list has one address per final connection of the node,
\* no address twice, not the node's own address, and only addresses of
\* nodes.
C16_PeerRecords ==
    pc = "done" =>
        /\ Len(peer_list) = Len(final_state.nodes)
        /\ \A i \in DOMAIN peer_list :
              /\ peer_list[i].ip = final_state.nodes[i].addr
              /\ Len(peer_list[i].list) = Len(final_state.nodes[i].connections)
              /\ NoRepeats(peer_list[i].list)
              /\ ~Contains(peer_list[i].list, peer_list[i].ip)
              /\ \A k \in DOMAIN peer_list[i].list :
                     \E j \in DOMAIN final_state.nodes :
                         final_state.nodes[j].addr = peer_list[i].list[k]

-----------------------------------------------------------------------------
(* Properties of the order of the MCDA loop *)

\* Node j lists i in the final state without having listed it initially.
AddedPeer(j, i) ==
    /\ Contains(final_state.nodes[j].connections, i)
    /\ ~Contains(nodes_in[j].connections, i)

\* Every processed node j that added a node i not yet processed is among
\* the connections the final state holds for i.
EarlierAddsVisible ==
    pc = "mcda" =>
        \A i \in DOMAIN final_state.nodes : \A j \in DOMAIN final_state.nodes :
            (j < node_idx /\ node_idx <= i /\ AddedPeer(j, i))
                => Contains(final_state.nodes[i].connections, j)

\* A step of the loop processes node node_idx and moves on to the next
\* index; the list it leaves for the node holds current peers read from the
\* final state and new peers that received the node in return; every other
\* list is unchanged or extended by the node.
InIndexOrder ==
    (pc = "mcda" /\ node_idx <= Len(working_state.nodes)) =>
        /\ pc' = "mcda"
        /\ node_idx' = node_idx + 1
        /\ \A x \in ConnectionSet(final_state'.nodes, node_idx) :
              \/ x \in ConnectionSet(final_state.nodes, node_idx)
              \/ /\ node_idx \in ConnectionSet(final_state'.nodes, x)
                 /\ node_idx \notin ConnectionSet(final_state.nodes, x)
        /\ \A k \in DOMAIN final_state.nodes :
              k # node_idx =>
                 \/ final_state'.nodes[k] = final_state.nodes[k]
                 \/ final_state'.nodes[k].connections =
                        Append(final_state.nodes[k].connections, node_idx)

\* C17: the MCDA loop processes the nodes one at a time in increasing index
\* order and node i reads its current peers from the final state as the
\* iterations j < i left it, so every j < i that added i is among them.
C17_McdaOrdering == [](EarlierAddsVisible) /\ [][InIndexOrder]_vars

\* Node node_idx is about to be processed and an earlier node has added it:
\* the earlier node is among its current peers though it was not initially.
C17_Witness ==
    /\ pc = "mcda"
    /\ node_idx <= Len(working_state.nodes)
    /\ \E j \in 1..(node_idx - 1) :
          /\ AddedPeer(j, node_idx)
          /\ Contains(CurrentPeers(node_idx, working_state.nodes,
                                   final_state.nodes), j)
          /\ ~Contains(nodes_in[node_idx].connections, j)

-----------------------------------------------------------------------------
(* nodes.rs: create_nodes_filtered *)

\* index_map: the new index (from 1) of a node of the requested network
\* type, 0 (the -1 of the source) for every other node.
IndexMap(types, network_type_filter) ==
    [n \in DOMAIN types |->
        IF types[n] = network_type_filter
        THEN Cardinality({m \in 1..n : types[m] = network_type_filter})
        ELSE 0]

\* The loops that fill new_indices (and the local graph), from connection k
\* of node n on: a connection is taken once, from the endpoint of lower new
\* index, and pushed on both lists.
RECURSIVE FillIndices(_, _, _, _, _)
FillIndices(indices, index_map, n, k, new_indices) ==
    IF n > Len(indices) THEN new_indices
    ELSE IF index_map[n] = 0 \/ k > Len(indices[n])
    THEN FillIndices(indices, index_map, n + 1, 1, new_indices)
    ELSE LET connection == indices[n][k]
             n_index == index_map[n]
         IN IF index_map[connection] # 0 /\ index_map[connection] > n_index
            THEN FillIndices(indices, index_map, n, k + 1,
                    [new_indices EXCEPT
                        ![n_index] = Append(@, index_map[connection]),
                        ![index_map[connection]] = Append(@, n_index)])
            ELSE FillIndices(indices, index_map, n, k + 1, new_indices)

\* The local graph: the edges pushed plus an edge from a node to itself for
\* every node whose list stayed empty.
FilteredGraph(new_indices) ==
    UNION {{{n, c} : c \in SeqToSet(new_indices[n])} : n \in DOMAIN new_indices}
    \cup {{n} : n \in {m \in DOMAIN new_indices : new_indices[m] = <<>>}}

\* create_nodes_filtered(network_type_filter, indices, node_addrs,
\* node_network_types): node_addrs[i] is i.
create_nodes_filtered(network_type_filter, indices, types) ==
    LET index_map == IndexMap(types, network_type_filter)
        count == Cardinality({n \in DOMAIN types : index_map[n] # 0})
        new_indices == FillIndices(indices, index_map, 1, 1,
                                   [i \in 1..count |-> <<>>])
        betweenness == betweenness_centrality(FilteredGraph(new_indices))
        kept == SelectSeq([i \in DOMAIN types |-> i],
                          LAMBDA i : index_map[i] # 0)
    IN [k \in DOMAIN kept |->
          [addr |-> kept[k], betweenness |-> betweenness[index_map[kept[k]]],
           connections |-> new_indices[index_map[kept[k]]]]]

(* Specification of create_nodes_filtered *)

\* A crawl of up to MaxCrawlNodes nodes of two network types (1 is the one
\* asked for) with the symmetric adjacency of a set of undirected edges.
InitFilter ==
    /\ pc = "call"
    /\ \E n \in 1..MaxCrawlNodes :
          \E E \in SUBSET {q \in (1..n) \X (1..n) : q[1] < q[2]},
             types \in [1..n -> {0, 1}] :
             nodes_in = [indices |-> [i \in 1..n |->
                            SortedSeq({j \in 1..n : <<i, j>> \in E \/ <<j, i>> \in E})],
                         types |-> types]
    /\ arg = 1
    /\ result = <<>>
    /\ GenIdle

CreateNodesFilteredCall ==
    /\ pc = "call"
    /\ result' = create_nodes_filtered(arg, nodes_in.indices, nodes_in.types)
    /\ pc' = "returned"
    /\ UNCHANGED <<nodes_in, arg>>
    /\ UNCHANGED genVars

NextFilter == CreateNodesFilteredCall

SpecFilter == InitFilter /\ [][NextFilter]_vars

\* The crawl indices of the nodes of the requested type, ascending.
KeptNodes == SelectSeq([i \in DOMAIN nodes_in.types |-> i],
                       LAMBDA i : nodes_in.types[i] = arg)

\* C18: the vector holds exactly the nodes of the requested type in their
\* original order; every connection is the new index of a kept neighbour;
\* the adjacency is symmetric; a kept node without any kept neighbour is
\* connected to itself.
C18_NetworkFilter ==
    pc = "returned" =>
        /\ [k \in DOMAIN result |-> result[k].addr] = KeptNodes
        /\ ValidIndices(result)
        /\ SymmetricAdjacency(result)
        /\ \A k \in DOMAIN result : \A c \in SeqToSet(result[k].connections) :
              c # k => Contains(nodes_in.indices[result[k].addr], result[c].addr)
        /\ \A k \in DOMAIN result :
              (\A j \in SeqToSet(nodes_in.indices[result[k].addr]) :
                   nodes_in.types[j] # arg)
                  => result[k].connections = <<k>>

-----------------------------------------------------------------------------
(* Specification of construct_graph *)

\* s written out r times in a row.
RECURSIVE Repeated(_, _)
Repeated(s, r) == IF r = 0 THEN <<>> ELSE s \o Repeated(s, r - 1)

\* Node vectors whose adjacency lists are free (an edge may be listed by one
\* endpoint only, or by both) and in which one node lists its connections up
\* to MaxRepeat times over.
InitGraph ==
    /\ pc = "call"
    /\ \E n \in 1..MaxUtilNodes :
          \E conn \in [1..n -> SUBSET (1..n)], d \in 1..n, r \in 1..MaxRepeat :
             nodes_in = [i \in 1..n |->
                           [addr |-> i, betweenness |-> 0,
                            connections |-> IF i = d
                                            THEN Repeated(SortedSeq(conn[i]), r)
                                            ELSE SortedSeq(conn[i])]]
    /\ arg = 0
    /\ result = <<>>
    /\ GenIdle

\* let mut graph = construct_graph(&nodes); graph.degree_centrality()
ConstructGraphCall ==
    /\ pc = "call"
    /\ LET graph == construct_graph(nodes_in)
       IN result' = [graph |-> graph, degrees |-> degree_centrality(graph)]
    /\ pc' = "returned"
    /\ UNCHANGED <<nodes_in, arg>>
    /\ UNCHANGED genVars

NextGraph == ConstructGraphCall

SpecGraph == InitGraph /\ [][NextGraph]_vars

\* The vector in which every edge listed by either endpoint is listed once
\* by both.
ListedOnceByBoth(nodes) ==
    [i \in DOMAIN nodes |->
        [nodes[i] EXCEPT !.connections =
            SortedSeq({j \in DOMAIN nodes :
                          \/ Contains(nodes[i].connections, j)
                          \/ Contains(nodes[j].connections, i)})]]

-----------------------------------------------------------------------------
(* histogram.rs: Histogram *)

\* f64::MAX and f64::MIN: beyond every value that is added.
F64Max == MaxValue + 1
F64Min == 0 - F64Max

\* The derived Default of the struct: zeroes.
HistogramDerivedDefault == [min |-> 0, max |-> 0, values |-> <<>>]

\* Histogram::default()
HistogramDefault == [min |-> F64Max, max |-> F64Min, values |-> <<>>]

\* The first loop of compute: min and max after values k.. of the list.
RECURSIVE MinMaxFrom(_, _, _, _)
MinMaxFrom(values, k, min, max) ==
    IF k > Len(values) THEN [min |-> min, max |-> max]
    ELSE MinMaxFrom(values, k + 1,
                    IF values[k] < min THEN values[k] ELSE min,
                    IF values[k] > max THEN values[k] ELSE max)

\* The second loop of compute: slots are numbered from 0, counts[slot + 1]
\* is the count of slot.
RECURSIVE CountFrom(_, _, _, _, _, _)
CountFrom(values, k, min, delta, num_counts, counts) ==
    IF k > Len(values) THEN counts
    ELSE LET floor == ((values[k] - min) * num_counts) \div delta
             slot == IF floor >= num_counts THEN num_counts - 1 ELSE floor
         IN CountFrom(values, k + 1, min, delta, num_counts,
                      [counts EXCEPT ![slot + 1] = @ + 1])

\* The third loop of compute.
RECURSIVE MaxCountFrom(_, _, _)
MaxCountFrom(counts, k, max_count) ==
    IF k > Len(counts) THEN max_count
    ELSE MaxCountFrom(counts, k + 1,
                      IF counts[k] > max_count THEN counts[k] ELSE max_count)

\* compute(&mut self, num_counts): the histogram afterwards and the pair
\* returned.
compute(self, num_counts) ==
    LET mm == MinMaxFrom(self.values, 1, self.min, self.max)
        delta == mm.max - mm.min
        zeroes == [i \in 1..num_counts |-> 0]
        counts == IF delta = 0 THEN zeroes
                  ELSE CountFrom(self.values, 1, mm.min, delta, num_counts, zeroes)
    IN [self |-> [self EXCEPT !.min = mm.min, !.max = mm.max],
        counts |-> counts,
        max_count |-> IF delta = 0 THEN 0 ELSE MaxCountFrom(counts, 1, 0)]

(* Specification of Histogram *)

InitHistogram ==
    /\ pc = "created"
    /\ nodes_in = HistogramDefault
    /\ arg = 0
    /\ result = <<>>
    /\ GenIdle

\* histogram.add(value)
HistogramAdd ==
    /\ Len(nodes_in.values) < MaxSeriesLen
    /\ \E value \in 0..MaxValue :
          nodes_in' = [nodes_in EXCEPT !.values = Append(@, value)]
    /\ pc' = "added"
    /\ UNCHANGED <<arg, result>>
    /\ UNCHANGED genVars

\* histogram.compute(num_counts)
HistogramCompute ==
    /\ \E num_counts \in 1..MaxCounts :
          LET r == compute(nodes_in, num_counts)
          IN /\ nodes_in' = r.self
             /\ arg' = num_counts
             /\ result' = [counts |-> r.counts, max_count |-> r.max_count]
    /\ pc' = "computed"
    /\ UNCHANGED genVars

NextHistogram == HistogramAdd \/ HistogramCompute

SpecHistogram == InitHistogram /\ [][NextHistogram]_vars

\* The bin of value v among the added values, numbered from 0.
BinOf(v, values, n) ==
    LET S == SeqToSet(values)
        lo == CHOOSE x \in S : \A y \in S : x <= y
        hi == CHOOSE x \in S : \A y \in S : x >= y
        q == ((v - lo) * n) \div (hi - lo)
    IN IF q < n - 1 THEN q ELSE n - 1

\* C20: compute(n) returns n counts; when the added values are not all
\* equal every value is counted in bin min(floor((v-min)/(max-min)*n), n-1),
\* the counts add up to the number of values and max_count is the largest
\* count; with no value or only equal values every count and max_count are 0.
C20_HistogramCompute ==
    pc = "computed" =>
        LET values == nodes_in.values
            n == arg
            counts == result.counts
        IN /\ Len(counts) = n
           /\ IF Cardinality(SeqToSet(values)) > 1
              THEN /\ \A b \in 0..(n - 1) :
                        counts[b + 1] =
                            Cardinality({k \in DOMAIN values : BinOf(values[k], values, n) = b})
                   /\ SumOf(DOMAIN counts, counts) = Len(values)
                   /\ \E b \in 1..n : result.max_count = counts[b]
                   /\ \A b \in 1..n : result.max_count >= counts[b]
              ELSE /\ \A b \in 1..n : counts[b] = 0
                   /\ result.max_count = 0

\* Three different values in three bins, the largest in the last bin, and
\* a bin that holds two values.
C20_Witness ==
    /\ pc = "computed"
    /\ Cardinality(SeqToSet(nodes_in.values)) = 3
    /\ arg = 3
    /\ result.counts[3] >= 1
    /\ result.max_count = 2

-----------------------------------------------------------------------------
(* Properties of the phases of one MCDA iteration *)

\* The iteration of the MCDA loop for node node_idx is taken.
McdaIterationTaken == pc = "mcda" /\ node_idx' = node_idx + 1

\* peers_to_delete_count of the iteration for node node_idx.
QuotaToDelete ==
    PeersToDelete(working_state.degrees[working_state.nodes[node_idx].addr],
                  DesiredDegree(working_state.degrees), config)

\* In the iteration for node u every current peer whose edge to u is a
\* bridge stays a peer of u, and at most peers_to_delete_count (itself at
\* most change_no_more) other peers leave the peer set of u.
DropWithinQuota ==
    McdaIterationTaken =>
        LET u == node_idx
            before == ConnectionSet(final_state.nodes, u)
            after == ConnectionSet(final_state'.nodes, u)
        IN /\ \A v \in before : InBridges(bridges, v, u) => v \in after
           /\ Cardinality((before \ after) \ {u}) <= QuotaToDelete
           /\ QuotaToDelete <= config.change_no_more

\* C21: a popped peer whose edge to u is in bridges is kept in the peer set
\* of u and charged to the delete quota, so the drop phase never removes
\* more than peers_to_delete (at most change_no_more) peers of u.
C21_DropPhaseQuota == [][DropWithinQuota]_vars

-----------------------------------------------------------------------------
(* Specification of the quota computation of the MCDA loop *)

\* Any u32 degree, desired degree, change_at_least and change_no_more.
InitQuota ==
    /\ pc = "call"
    /\ \E degree \in 0..U32Max, desired_degree \in 0..U32Max :
          nodes_in = [degree |-> degree, desired_degree |-> desired_degree]
    /\ \E change_at_least \in 0..U32Max, change_no_more \in 0..U32Max :
          arg = [change_at_least |-> change_at_least,
                 change_no_more |-> change_no_more]
    /\ result = <<>>
    /\ GenIdle

\* "3 - Calculate how many peers to add or delete from peerlist"
ComputeQuotas ==
    /\ pc = "call"
    /\ result' =
          [peers_to_delete_count |->
               PeersToDelete(nodes_in.degree, nodes_in.desired_degree, arg),
           peers_to_add_count |->
               PeersToAdd(nodes_in.degree, nodes_in.desired_degree, arg)]
    /\ pc' = "returned"
    /\ UNCHANGED <<nodes_in, arg>>
    /\ UNCHANGED genVars

NextQuota == ComputeQuotas

SpecQuota == InitQuota /\ [][NextQuota]_vars

\* C22: peers_to_delete = min(change_no_more, deg - desired if desired < deg
\* else change_at_least) and peers_to_add = min(change_no_more, desired - deg
\* + peers_to_delete if desired > deg else change_at_least), in unbounded
\* integers; both lie in 0..change_no_more for all inputs of the width.
C22_PerNodeQuotas ==
    pc = "returned" =>
        LET deg == nodes_in.degree
            desired == nodes_in.desired_degree
            delete == IF desired < deg THEN deg - desired ELSE arg.change_at_least
            peers_to_delete == IF delete < arg.change_no_more
                               THEN delete ELSE arg.change_no_more
            add == IF desired > deg THEN desired - deg + peers_to_delete
                   ELSE arg.change_at_least
            peers_to_add == IF add < arg.change_no_more
                            THEN add ELSE arg.change_no_more
        IN /\ result.peers_to_delete_count = peers_to_delete
           /\ result.peers_to_add_count = peers_to_add
           /\ result.peers_to_delete_count \in 0..arg.change_no_more
           /\ result.peers_to_add_count \in 0..arg.change_no_more

\* The sum desired - deg + peers_to_delete exceeds the largest u32.
C22_Witness ==
    /\ pc = "returned"
    /\ nodes_in.desired_degree > nodes_in.degree
    /\ (nodes_in.desired_degree - nodes_in.degree) + result.peers_to_delete_count > U32Max
    /\ result.peers_to_add_count = arg.change_no_more
    /\ arg.change_no_more > 0

\* An iteration of the MCDA loop is about to run for node node_idx.
McdaIterationPending == pc = "mcda" /\ node_idx <= Len(working_state.nodes)

\* peer_ratings as the filters see it: one entry per node, in index order.
AllCandidates ==
    [i \in DOMAIN working_state.nodes |-> [index |-> i, rating |-> 0]]

\* C23: the already-topped-up filter drops exactly the candidates whose
\* final-state connection count exceeds their working-state count; a
\* candidate with equal counts stays eligible.
C23_ToppedUpFilter ==
    McdaIterationPending =>
        RetainNotToppedUp(AllCandidates, working_state.nodes, final_state.nodes)
            = SelectSeq(AllCandidates, LAMBDA x :
                ~(Len(final_state.nodes[x.index].connections)
                    > Len(working_state.nodes[x.index].connections)))

\* peers_to_add_count of the iteration for node node_idx.
QuotaToAdd ==
    PeersToAdd(working_state.degrees[working_state.nodes[node_idx].addr],
               DesiredDegree(working_state.degrees), config)

\* The candidates eligible for node node_idx: those the three retain() calls
\* leave that are not connected to the node in either direction of the final
\* state.
EligibleCandidates ==
    LET pool == CandidatePool(node_idx, AllCandidates, working_state.nodes,
                              final_state.nodes, config)
    IN {pool[k].index : k \in DOMAIN pool} \
          {c \in DOMAIN final_state.nodes :
              \/ Contains(final_state.nodes[c].connections, node_idx)
              \/ Contains(final_state.nodes[node_idx].connections, c)}

\* The selection the claim describes for the ratings given: the count
\* candidates of lowest betweenness (ties by rating order) among the
\* 2 * count eligible candidates of highest rating (ties by index).
SelectedByClaim(eligible, ratings, count) ==
    LET RatingRank(i) == Cardinality({j \in eligible :
                            \/ ratings[j] > ratings[i]
                            \/ ratings[j] = ratings[i] /\ j < i})
        shortlist == {i \in eligible : RatingRank(i) < 2 * count}
        Btw(i) == working_state.nodes[i].betweenness
        BetweennessRank(i) == Cardinality({j \in shortlist :
                            \/ Btw(j) < Btw(i)
                            \/ Btw(j) = Btw(i) /\ RatingRank(j) < RatingRank(i)})
    IN {i \in shortlist : BetweennessRank(i) < count}

\* The peers node node_idx gains in the step.
AddedPeers ==
    ConnectionSet(final_state'.nodes, node_idx)
        \ ConnectionSet(final_state.nodes, node_idx)

\* In an iteration with peers_to_add_count > 0 the added peers are the
\* selection of the claim for some ratings, and each gets the node appended.
AddPhaseSelection ==
    (McdaIterationTaken /\ QuotaToAdd > 0) =>
        /\ Cardinality(AddedPeers) <= QuotaToAdd
        /\ node_idx \notin AddedPeers
        /\ AddedPeers \subseteq EligibleCandidates
        /\ \E ratings \in Ratings(Len(working_state.nodes)) :
              AddedPeers = SelectedByClaim(EligibleCandidates, ratings, QuotaToAdd)
        /\ \A c \in DOMAIN final_state.nodes :
              c # node_idx =>
                  final_state'.nodes[c].connections =
                      IF c \in AddedPeers
                      THEN Append(final_state.nodes[c].connections, node_idx)
                      ELSE final_state.nodes[c].connections

-----------------------------------------------------------------------------
(* Specification of the integrity probe on networks with several removals *)

\* Graph::betweenness_centrality on a forest, where two vertices are joined
\* by at most one path: the number of pairs of other nodes whose path passes
\* through v, i.e. the pairs taken from different components of the tree of
\* v without v.
ForestBetweenness(nodes, v) ==
    LET others == DOMAIN nodes \ {v}
        branches == {ReachWithin(nodes, {c}, others) :
                        c \in SeqToSet(nodes[v].connections) \ {v}}
        sizes == [b \in branches |-> Cardinality(b)]
        total == SumOf(branches, sizes)
    IN (total * total
           - SumOf(branches, [b \in branches |-> sizes[b] * sizes[b]])) \div 2

\* A network of n nodes around two hubs h1 and h2 that are connected to each
\* other: the other nodes, in index order, form chains of two (the last chain
\* takes the remainder), and chain a hangs with its first node on the hub
\* side[a].
HubNetwork(n, h1, h2, side) ==
    LET others == SortedSeq((1..n) \ {h1, h2})
        arms == DOMAIN side
        ArmOf(k) == Min((k + 1) \div 2, Cardinality(arms))
        E == {<<h1, h2>>}
             \cup {<<others[k], others[k + 1]>> :
                     k \in {j \in 1..(Len(others) - 1) : ArmOf(j) = ArmOf(j + 1)}}
             \cup {<<others[k], side[ArmOf(k)]>> :
                     k \in {j \in DOMAIN others : j = 1 \/ ArmOf(j - 1) # ArmOf(j)}}
        plain == Table(NetworkNodes(n, E))
    IN Table([i \in 1..n |->
                [plain[i] EXCEPT !.betweenness = ForestBetweenness(plain, i)]])

\* The hubs are the first, the middle or the last node of the vector.
HubPositions == {1, (ProbeNodes + 1) \div 2, ProbeNodes}

\* The state generate_state builds of a hub network of ProbeNodes nodes.
InitProbe ==
    /\ pc = "call"
    /\ \E h1 \in HubPositions, h2 \in HubPositions :
          /\ h1 # h2
          /\ \E side \in [1..((ProbeNodes - 2) \div 2) -> {h1, h2}] :
                nodes_in = HubNetwork(ProbeNodes, h1, h2, side)
    /\ arg = 0
    /\ result = <<>>
    /\ GenIdle

ProbeCall ==
    /\ pc = "call"
    /\ result' = check_and_fix_integrity_upon_removal(nodes_in)
    /\ pc' = "returned"
    /\ UNCHANGED <<nodes_in, arg>>
    /\ UNCHANGED genVars

NextProbe == ProbeCall

SpecProbe == InitProbe /\ [][NextProbe]_vars

\* C25: the probe removes round(0.1 * V) nodes, those of highest
\* betweenness, and the k-th index it records is the position in the
\* original state of the k-th node removed.
C25_ProbeIndexBookkeeping ==
    pc = "returned" =>
        /\ Len(result.removed_idx) = TenPercent(Len(nodes_in))
        /\ \A k \in DOMAIN result.removed_idx :
              {result.removed_idx[k]} =
                  TopNodes(nodes_in, k, {}) \ TopNodes(nodes_in, k - 1, {})

-----------------------------------------------------------------------------
(* Properties of the repair loop *)

\* The member of conns of lowest betweenness, the first occurrence on ties.
IsLowestOf(nodes, conns, a) ==
    \E k \in DOMAIN conns :
        /\ conns[k] = a
        /\ \A j \in DOMAIN conns :
              \/ nodes[conns[j]].betweenness > nodes[a].betweenness
              \/ nodes[conns[j]].betweenness = nodes[a].betweenness /\ k <= j

\* The repairs for removed[k..] append, one after the other, an edge a<->b
\* between the two neighbours of lowest betweenness of the removed index and
\* lead from nodes to repaired.
RECURSIVE RepairsAsClaimed(_, _, _, _)
RepairsAsClaimed(nodes, removed, k, repaired) ==
    IF k > Len(removed) THEN nodes = repaired
    ELSE LET conns == nodes[removed[k]].connections
         IN \E a \in SeqToSet(conns), b \in SeqToSet(conns) :
               /\ a # b
               /\ IsLowestOf(nodes, conns, a)
               /\ IsLowestOf(nodes, SelectSeq(conns, LAMBDA x : x # a), b)
               /\ RepairsAsClaimed(
                      [nodes EXCEPT ![a].connections = Append(@, b),
                                    ![b].connections = Append(@, a)],
                      removed, k + 1, repaired)

\* C26: for each removed index r the repair appends one symmetric edge
\* a<->b, a the member of lowest betweenness of r's connections (first
\* occurrence on ties) and b the one of lowest betweenness among the others;
\* a and b are distinct neighbours of r and the repaired adjacency is
\* symmetric, whatever the degree of r.
C26_RepairEdge ==
    (pc = "returned" /\ ~result.intact) =>
        /\ RepairsAsClaimed(nodes_in, result.removed_idx, 1, result.nodes)
        /\ SymmetricAdjacency(result.nodes)

-----------------------------------------------------------------------------
(* algorithm.rs: update_rating_by_location *)

\* Ratings are counted in thirds (NORMALIZE_TO_VALUE = 100 is 300), so that
\* NORMALIZE_2_3 and NORMALIZE_1_3 are integers.  A geolocation is of kind
\* "none" (no GeoInfo), "no_coordinates" (a GeoInfo without coordinates) or
\* "coordinates", then with a position on a line in units of 500 m.
NORMALIZE_TO_VALUE == 300
NORMALIZE_HALF == NORMALIZE_TO_VALUE \div 2
NORMALIZE_2_3 == (NORMALIZE_TO_VALUE * 2) \div 3
NORMALIZE_1_3 == (NORMALIZE_TO_VALUE * 1) \div 3

HasCoordinates(geolocation) == geolocation.kind = "coordinates"

\* Coordinates::distance_to, in metres.
distance_to(a, b) == 500 * AbsDiff(a.position, b.position)

\* Variant of LocationLevel whose limits belong to the nearer level.
LocationLevelInclusive(mode, distance, minmax_distance_m) ==
    IF mode = "PreferCloser"
    THEN IF distance <= minmax_distance_m THEN NORMALIZE_TO_VALUE
         ELSE IF distance <= 2 * minmax_distance_m THEN NORMALIZE_2_3
         ELSE IF distance <= 3 * minmax_distance_m THEN NORMALIZE_1_3
         ELSE 0
    ELSE IF 2 * distance <= minmax_distance_m THEN 0
         ELSE IF distance <= minmax_distance_m THEN NORMALIZE_HALF
         ELSE NORMALIZE_TO_VALUE

\* "Map distance to some levels of rating"
LocationLevel(mode, distance, minmax_distance_m) ==
    IF mode = "PreferCloser"
    THEN IF distance < minmax_distance_m THEN NORMALIZE_TO_VALUE
         ELSE IF distance < 2 * minmax_distance_m THEN NORMALIZE_2_3
         ELSE IF distance < 3 * minmax_distance_m THEN NORMALIZE_1_3
         ELSE 0
    ELSE IF 2 * distance < minmax_distance_m THEN 0
         ELSE IF distance < minmax_distance_m THEN NORMALIZE_HALF
         ELSE NORMALIZE_TO_VALUE

\* update_rating_by_location(selected_node, nodes, ratings)
update_rating_by_location(cfg, selected_node, nodes, ratings) ==
    IF ~HasCoordinates(selected_node.geolocation) THEN ratings
    ELSE [idx \in DOMAIN ratings |->
            IF ~HasCoordinates(nodes[idx].geolocation)
            THEN ratings[idx]
            ELSE ratings[idx]
                   + LocationLevel(cfg.geolocation,
                         distance_to(selected_node.geolocation,
                                     nodes[idx].geolocation),
                         cfg.geolocation_minmax_distance_km * 1000)
                     * cfg.location]

(* Specification of the location rating of one iteration *)

Geolocations ==
    {[kind |-> "none", position |-> 0], [kind |-> "no_coordinates", position |-> 0]}
        \cup {[kind |-> "coordinates", position |-> p] : p \in 0..MaxPosition}

\* The selected node and one other node with any geolocation, constant
\* ratings (in thirds) and any mode, distance limit and location weight.
InitLocation ==
    /\ pc = "call"
    /\ \E gu \in Geolocations, gv \in Geolocations :
          \E ratings \in [1..2 -> 0..MaxRating] :
             nodes_in = [nodes |-> <<[geolocation |-> gu], [geolocation |-> gv]>>,
                         ratings |-> [i \in 1..2 |-> 3 * ratings[i]]]
    /\ \E mode \in {"Off", "PreferCloser", "PreferDistant"},
          km \in 0..MaxDistanceKm, weight \in 0..MaxWeight :
             arg = [geolocation |-> mode, geolocation_minmax_distance_km |-> km,
                    location |-> weight]
    /\ result = <<>>
    /\ GenIdle

\* "1 - update ranks by location for specified node" for the first node
UpdateRatingByLocation ==
    /\ pc = "call"
    /\ result' = IF arg.geolocation # "Off"
                 THEN update_rating_by_location(arg, nodes_in.nodes[1],
                                                nodes_in.nodes, nodes_in.ratings)
                 ELSE nodes_in.ratings
    /\ pc' = "rated"
    /\ UNCHANGED <<nodes_in, arg>>
    /\ UNCHANGED genVars

NextLocation == UpdateRatingByLocation

SpecLocation == InitLocation /\ [][NextLocation]_vars

\* The contribution the claim gives for distance d and limit D, as a
\* fraction of 100 in thirds: 300 is 100, 200 is 66.66.., 150 is 50.
ClaimedLevel(mode, d, D) ==
    CASE mode = "PreferCloser" /\ d < D -> 300
      [] mode = "PreferCloser" /\ ~(d < D) /\ d < 2 * D -> 200
      [] mode = "PreferCloser" /\ ~(d < 2 * D) /\ d < 3 * D -> 100
      [] mode = "PreferCloser" /\ ~(d < 3 * D) -> 0
      [] mode = "PreferDistant" /\ 2 * d < D -> 0
      [] mode = "PreferDistant" /\ ~(2 * d < D) /\ d < D -> 150
      [] mode = "PreferDistant" /\ ~(d < D) -> 300

\* C27: the rating of each candidate v grows by weight_location * c, c
\* given by the mode and the distance between u and v; nothing changes when
\* u has no coordinates or the mode is Off, and a candidate without
\* coordinates keeps its rating.
C27_LocationRating ==
    pc = "rated" =>
        LET u == nodes_in.nodes[1].geolocation
            D == arg.geolocation_minmax_distance_km * 1000
        IN \A v \in DOMAIN nodes_in.nodes :
              LET g == nodes_in.nodes[v].geolocation
              IN result[v] =
                    IF arg.geolocation = "Off" \/ u.kind # "coordinates"
                          \/ g.kind # "coordinates"
                    THEN nodes_in.ratings[v]
                    ELSE nodes_in.ratings[v]
                           + arg.location
                               * ClaimedLevel(arg.geolocation,
                                   500 * AbsDiff(u.position, g.position), D)

\* A candidate exactly at the distance limit of PreferCloser, rated at the
\* second level, next to the selected node itself at distance 0.
C27_Witness ==
    /\ pc = "rated"
    /\ arg.geolocation = "PreferCloser"
    /\ arg.geolocation_minmax_distance_km = 1
    /\ arg.location = 2
    /\ HasCoordinates(nodes_in.nodes[1].geolocation)
    /\ HasCoordinates(nodes_in.nodes[2].geolocation)
    /\ AbsDiff(nodes_in.nodes[1].geolocation.position,
               nodes_in.nodes[2].geolocation.position) = 2
    /\ result[2] = nodes_in.ratings[2] + 400
    /\ result[1] = nodes_in.ratings[1] + 600

-----------------------------------------------------------------------------
(* algorithm.rs: generate_state with its normalization factors, rate_node *)

\* Graph::closeness_centrality: the number of vertices reachable from v over
\* the sum of their distances, 0 for a vertex that reaches no other.  The
\* value is counted in units of 1/Factorial(|V| + 2), which keeps it an
\* integer for the graphs of the model.
closeness_centrality(graph) ==
    LET V == Vertices(graph)
        dist == Distances(graph)
        unit == Factorial(Cardinality(V) + 2)
    IN Table([v \in V |->
           LET reached == {t \in V : dist[v][t] > 0}
               total == SumOf(reached, [t \in reached |-> dist[v][t]])
           IN IF total = 0 THEN 0 ELSE (unit * Cardinality(reached)) \div total])

\* The values of a map in the order of the node vector.
ValuesOf(map, nodes) == [i \in DOMAIN nodes |-> map[nodes[i].addr]]

\* generate_state(nodes, true) with every field of the IpsState: the nodes
\* with betweenness and closeness recomputed, the degrees, the eigenvalues
\* the graph library returns, and the four NormalizationFactors; the
\* betweenness and closeness factors are determined from the parameter nodes.
generate_state_factors(nodes, eigenvalues) ==
    LET st == generate_state(nodes)
        closeness == closeness_centrality(construct_graph(nodes))
    IN IF ~st.ok THEN [ok |-> FALSE]
       ELSE [ok |-> TRUE,
             nodes |-> [i \in DOMAIN st.nodes |->
                          [st.nodes[i] EXCEPT !.closeness = closeness[st.nodes[i].addr]]],
             degrees |-> st.degrees,
             eigenvalues |-> eigenvalues,
             degree_factors |-> determine(ValuesOf(st.degrees, nodes)),
             eigenvector_factors |-> determine(ValuesOf(eigenvalues, nodes)),
             betweenness_factors |->
                 determine([i \in DOMAIN nodes |-> nodes[i].betweenness]),
             closeness_factors |->
                 determine([i \in DOMAIN nodes |-> nodes[i].closeness])]

(* Specification of generate_state on the node vectors generate passes *)

\* The node vectors generate_state is called with: the nodes of a network
\* (edges E) that still carry the betweenness and closeness of another
\* network over the same nodes (edges F), as after filtering, the repair or
\* the MCDA loop; the eigenvalues are those the graph library returns.
GenerateStateInputs ==
    /\ pc = "call"
    /\ \E n \in 1..MaxUtilNodes :
          \E E \in SUBSET {q \in (1..n) \X (1..n) : q[1] < q[2]},
             F \in SUBSET {q \in (1..n) \X (1..n) : q[1] < q[2]} :
             LET earlier == generate_state_factors(
                                [i \in 1..n |-> [addr |-> i, betweenness |-> 0,
                                      closeness |-> 0,
                                      connections |-> NetworkNodes(n, F)[i].connections]],
                                [i \in 1..n |-> 0]).nodes
             IN nodes_in = [i \in 1..n |->
                              [earlier[i] EXCEPT !.connections =
                                   NetworkNodes(n, E)[i].connections]]
    /\ arg \in [1..Len(nodes_in) -> 0..MaxRating]
    /\ result = <<>>

InitState ==
    /\ GenerateStateInputs
    /\ GenIdle

GenerateStateCall ==
    /\ pc = "call"
    /\ result' = generate_state_factors(nodes_in, arg)
    /\ pc' = "returned"
    /\ UNCHANGED <<nodes_in, arg>>
    /\ UNCHANGED genVars

NextState == GenerateStateCall

SpecState == InitState /\ [][NextState]_vars

\* C29: the betweenness and closeness factors of a state built by
\* generate_state are the minimum and maximum of the values stored in the
\* nodes of that state, so every stored value lies within its factors.
C29_FactorConsistency ==
    (pc = "returned" /\ result.ok) =>
        \A i \in DOMAIN result.nodes :
            /\ result.betweenness_factors.min <= result.nodes[i].betweenness
            /\ result.nodes[i].betweenness <= result.betweenness_factors.max
            /\ result.closeness_factors.min <= result.nodes[i].closeness
            /\ result.nodes[i].closeness <= result.closeness_factors.max
            /\ \E j \in DOMAIN result.nodes :
                  result.nodes[j].betweenness = result.betweenness_factors.min
            /\ \E j \in DOMAIN result.nodes :
                  result.nodes[j].betweenness = result.betweenness_factors.max
            /\ \E j \in DOMAIN result.nodes :
                  result.nodes[j].closeness = result.closeness_factors.min
            /\ \E j \in DOMAIN result.nodes :
                  result.nodes[j].closeness = result.closeness_factors.max

(* Specification of rate_node on the states generate_state builds *)

\* MultiCriteriaAnalysisWeights without the location weight, in hundredths:
\* the default weights, each single criterion alone, and no criterion.
DefaultWeights ==
    [degree |-> 25, eigenvector |-> 10, betweenness |-> 25, closeness |-> 10]

WeightVectors ==
    {DefaultWeights} \cup
    {[degree |-> d, eigenvector |-> e, betweenness |-> b, closeness |-> c] :
        d \in {0, 100}, e \in {0, 100}, b \in {0, 100}, c \in {0, 100}}

\* rate_node(node, state): the sum over the four criteria of
\* scale(value) * NORMALIZE_TO_VALUE * weight, as the pair (numerator,
\* denominator); with the weights in hundredths the factor 100 cancels.
rate_node(weights, node, state) ==
    LET degree == scale(state.degree_factors, state.degrees[node.addr])
        betweenness == scale(state.betweenness_factors, node.betweenness)
        closeness == scale(state.closeness_factors, node.closeness)
        eigenvalue == scale(state.eigenvector_factors, state.eigenvalues[node.addr])
        den == degree.den * betweenness.den * closeness.den * eigenvalue.den
    IN [num |-> weights.degree * degree.num * (den \div degree.den)
                + weights.betweenness * betweenness.num * (den \div betweenness.den)
                + weights.closeness * closeness.num * (den \div closeness.den)
                + weights.eigenvector * eigenvalue.num * (den \div eigenvalue.den),
        den |-> den]

\* The states rate_node is called with are built by generate_state from
\* node vectors as in InitState; the weights come from the configuration.
InitRate ==
    /\ GenerateStateInputs
    /\ config \in WeightVectors
    /\ working_state = <<>>
    /\ final_state = <<>>
    /\ bridges = <<>>
    /\ node_idx = 0
    /\ peer_list = <<>>

\* calculate_const_factors rates the nodes of the state, the test
\* rate_node_test a node of the vector the state was built from.
RateNodeCall ==
    /\ pc = "call"
    /\ LET state == generate_state_factors(nodes_in, arg)
       IN \E idx \in DOMAIN nodes_in, from \in {"state", "parameter"} :
            LET node == IF from = "state" THEN state.nodes[idx] ELSE nodes_in[idx]
            IN result' = [state |-> state, node |-> node,
                          rating |-> rate_node(config, node, state)]
    /\ pc' = "rated"
    /\ UNCHANGED <<nodes_in, arg>>
    /\ UNCHANGED <<working_state, final_state, bridges, node_idx, peer_list>>
    /\ UNCHANGED config

NextRate == RateNodeCall

SpecRate == InitRate /\ [][NextRate]_vars

\* All nodes of the state have the same degree, betweenness, closeness and
\* eigenvector value.
IdenticalValues(state) ==
    \A i, j \in DOMAIN state.nodes :
        /\ state.degrees[state.nodes[i].addr] = state.degrees[state.nodes[j].addr]
        /\ state.eigenvalues[state.nodes[i].addr] = state.eigenvalues[state.nodes[j].addr]
        /\ state.nodes[i].betweenness = state.nodes[j].betweenness
        /\ state.nodes[i].closeness = state.nodes[j].closeness

Within(factors, value) == factors.min <= value /\ value <= factors.max

C30_RepairEdgesReachMcda ==
    (pc = "mcda" /\ node_idx = 1) =>
        \A i \in DOMAIN working_state.nodes :
            final_state.nodes[i].connections = working_state.nodes[i].connections

====
